---- MODULE Spec2Model ----
(***************************************************************************)
(* hackpng: PNG chunk types, chunks, the PNG container and the encode /    *)
(* decode commands, as state machines over byte sequences.                 *)
(*                                                                         *)
(* A byte is a number in 0..255.  A Rust slice or Vec<u8> is a sequence of *)
(* bytes; Rust index i is TLA+ index i + 1.  TLC's integers are 32-bit     *)
(* signed, so a u32 is kept as its four big-endian bytes (what             *)
(* to_be_bytes / from_be_bytes exchange) and turned into a number only     *)
(* where it is known to fit.                                               *)
(***************************************************************************)
EXTENDS Integers, Sequences, FiniteSets, TLC

VARIABLES
    input,      \* ChunkType: the argument handed to the constructor
    ctype,      \* ChunkType: Result of from_str / try_from([u8; 4])
    answer,     \* ChunkType: the last predicate called and what it returned
    chunk,      \* Chunk: the chunk built by Chunk::new
    buf,        \* Chunk: the byte buffer handed to Chunk::try_from
    edit,       \* Chunk: how buf was derived from chunk.as_bytes()
    parsed,     \* Chunk: outcome of Chunk::try_from(buf)
    png,        \* Png: the container being built, its chunks in order
    op,         \* Png: the last container operation and the chunks before it
    file,       \* Png: Some(the bytes png.as_bytes() produced)
    loaded,     \* Png: outcome of Png::try_from(file)
    fs,         \* commands: the files on disk, path |-> Some(bytes) or None
    last,       \* commands: the last command run, its arguments and exit
    runs        \* commands: number of commands run so far

typeVars == <<input, ctype, answer>>
chunkVars == <<chunk, buf, edit, parsed>>
pngVars == <<png, op, file, loaded>>
cliVars == <<fs, last, runs>>
vars == <<input, ctype, answer, chunk, buf, edit, parsed,
          png, op, file, loaded, fs, last, runs>>

-----------------------------------------------------------------------------
(* Bounds of the model *)

\* longest text handed to ChunkType::from_str
MaxStrLen == 5
\* longest data payload of a chunk
MaxDataLen == 2

-----------------------------------------------------------------------------
(* Values *)

None == [tag |-> "None"]
Ok(v) == [tag |-> "Ok", value |-> v]
Err(e) == [tag |-> "Err", error |-> e]
\* an unwrap() on Err/None, an out-of-range drain or index: the thread panics
Panic == [tag |-> "Panic"]
Some(v) == [tag |-> "Some", value |-> v]

\* the components a specification leaves untouched
TypeIdle == input = None /\ ctype = None /\ answer = None
ChunkIdle == chunk = None /\ buf = <<>> /\ edit = None /\ parsed = None
PngIdle == png = <<>> /\ op = None /\ file = None /\ loaded = None
CliIdle == fs = None /\ last = None /\ runs = 0

SeqsUpTo(S, n) == UNION {[1..k -> S] : k \in 0..n}

-----------------------------------------------------------------------------
(* Bit operations on bytes *)

RECURSIVE BitAnd(_, _)
BitAnd(a, b) ==
    IF a = 0 \/ b = 0 THEN 0
    ELSE ((a % 2) * (b % 2)) + 2 * BitAnd(a \div 2, b \div 2)

RECURSIVE BitXor(_, _)
BitXor(a, b) ==
    IF a = 0 THEN b
    ELSE IF b = 0 THEN a
    ELSE (((a % 2) + (b % 2)) % 2) + 2 * BitXor(a \div 2, b \div 2)

RECURSIVE Shl(_, _)
Shl(a, k) == IF k = 0 THEN a ELSE Shl(2 * a, k - 1)

XorTable == [a \in 0..255 |-> [b \in 0..255 |-> BitXor(a, b)]]

-----------------------------------------------------------------------------
(* chunk_type.rs *)

\* u8::is_ascii_alphabetic: b'A'..=b'Z' | b'a'..=b'z'
IsAlphaLowerOnly(byte) == byte >= 97 /\ byte <= 122
is_ascii_alphabetic(byte) ==
    (byte >= 65 /\ byte <= 90) \/ (byte >= 97 /\ byte <= 122)

Bit5SetIsZero(byte) == BitAnd(byte, Shl(1, 5)) # 0
is_bit5_zero(byte) == BitAnd(byte, Shl(1, 5)) = 0

is_critical(t) == is_bit5_zero(t.bytes[1])

is_public(t) == is_bit5_zero(t.bytes[2])

is_reserved_bit_valid(t) == is_bit5_zero(t.bytes[3])

is_safe_to_copy(t) == ~is_bit5_zero(t.bytes[4])

IsValidAlphaOnly(t) == \A i \in 1..4 : is_ascii_alphabetic(t.bytes[i])
is_valid(t) ==
    (\A i \in 1..4 : is_ascii_alphabetic(t.bytes[i])) /\ is_reserved_bit_valid(t)

\* impl TryFrom<[u8; 4]> for ChunkType
ChunkType_try_from(value) == Ok([bytes |-> value])

\* impl FromStr for ChunkType; s is the string's UTF-8 bytes
FromStrNoCharCheck(s) ==
    IF Len(s) # 4 THEN Err([kind |-> "UnexpectedLength", n |-> Len(s)])
    ELSE Ok([bytes |-> SubSeq(s, 1, 4)])
ChunkType_from_str(s) ==
    IF Len(s) # 4 THEN Err([kind |-> "UnexpectedLength", n |-> Len(s)])
    ELSE LET bytes == SubSeq(s, 1, 4) IN
         IF ~(\A i \in 1..4 : is_ascii_alphabetic(bytes[i]))
         THEN Err([kind |-> "InvalidCharacter"])
         ELSE Ok([bytes |-> bytes])

-----------------------------------------------------------------------------
(* Inputs of the ChunkType operations *)

\* '@' 'A' 'Z' '[' 'a' 'z': the letters' range ends and two neighbours
StrAlphabet == {64, 65, 90, 91, 97, 122}

\* "RuSt" "Rust" "Ru1t" "ruSt" "RUSt" "RuST" of the tests, "aa`a" and "zz{z",
\* and texts holding the two-byte character U+00E9
StrVectors ==
    { <<82, 117, 83, 116>>, <<82, 117, 115, 116>>, <<82, 117, 49, 116>>,
      <<114, 117, 83, 116>>, <<82, 85, 83, 116>>, <<82, 117, 83, 84>>,
      <<97, 97, 96, 97>>, <<122, 122, 123, 122>>,
      <<82, 195, 169, 116>>, <<195, 169, 195, 169>>, <<82, 117, 83, 195, 169>>,
      <<195, 169>> }

StrInputs == SeqsUpTo(StrAlphabet, MaxStrLen) \cup StrVectors

\* bytes of a [u8; 4]: letters, their neighbours, and bytes that are no text
RawAlphabet == {0, 32, 64, 65, 90, 97, 122, 223, 255}

RawInputs == [1..4 -> RawAlphabet]

TypeInputs ==
    {[kind |-> "str", s |-> s] : s \in StrInputs}
        \cup {[kind |-> "bytes", b |-> b] : b \in RawInputs}

-----------------------------------------------------------------------------
(* ChunkType: the state machine *)

InitType ==
    /\ input \in TypeInputs
    /\ ctype = None
    /\ answer = None
    /\ ChunkIdle /\ PngIdle /\ CliIdle

FromStr ==
    /\ input.kind = "str"
    /\ ctype = None
    /\ ctype' = ChunkType_from_str(input.s)
    /\ UNCHANGED <<input, answer, chunkVars, pngVars, cliVars>>

TryFromBytes ==
    /\ input.kind = "bytes"
    /\ ctype = None
    /\ ctype' = ChunkType_try_from(input.b)
    /\ UNCHANGED <<input, answer, chunkVars, pngVars, cliVars>>

\* a call of a &self predicate on the constructed type
Call(pred, value) ==
    /\ ctype.tag = "Ok"
    /\ answer = None
    /\ answer' = [pred |-> pred, value |-> value, self |-> ctype.value]
    /\ UNCHANGED <<input, ctype, chunkVars, pngVars, cliVars>>

IsValid == ctype.tag = "Ok" /\ Call("is_valid", is_valid(ctype.value))

IsCritical == ctype.tag = "Ok" /\ Call("is_critical", is_critical(ctype.value))

IsPublic == ctype.tag = "Ok" /\ Call("is_public", is_public(ctype.value))

IsReservedBitValid ==
    ctype.tag = "Ok" /\ Call("is_reserved_bit_valid", is_reserved_bit_valid(ctype.value))

IsSafeToCopy ==
    ctype.tag = "Ok" /\ Call("is_safe_to_copy", is_safe_to_copy(ctype.value))

NextType ==
    \/ FromStr
    \/ TryFromBytes
    \/ IsValid
    \/ IsCritical
    \/ IsPublic
    \/ IsReservedBitValid
    \/ IsSafeToCopy

SpecType == InitType /\ [][NextType]_vars

-----------------------------------------------------------------------------
(* ChunkType: properties *)

Letters == (65..90) \cup (97..122)

Bit5Clear(byte) == (byte \div 32) % 2 = 0

\* C5: ChunkType::from_str fails with the length error when the text is not
\* exactly 4 bytes long, fails with InvalidCharacter when it is 4 bytes long
\* and some byte is no ASCII letter, and otherwise succeeds with exactly those
\* 4 bytes; every ChunkType built from text has 4 ASCII letters.
C5_FromStrOutcome ==
    (input.kind = "str" /\ ctype # None) =>
        LET s == input.s IN
        /\ Len(s) # 4 =>
              /\ ctype.tag = "Err"
              /\ ctype.error.kind = "UnexpectedLength"
              /\ ctype.error.n = Len(s)
        /\ (Len(s) = 4 /\ \E i \in 1..4 : s[i] \notin Letters) =>
              /\ ctype.tag = "Err"
              /\ ctype.error.kind = "InvalidCharacter"
        /\ (Len(s) = 4 /\ \A i \in 1..4 : s[i] \in Letters) =>
              /\ ctype.tag = "Ok"
              /\ ctype.value.bytes = s
        /\ ctype.tag = "Ok" =>
              /\ Len(ctype.value.bytes) = 4
              /\ \A i \in 1..4 : ctype.value.bytes[i] \in Letters

\* "Ru1t" is rejected for its digit
C5_Witness ==
    /\ input = [kind |-> "str", s |-> <<82, 117, 49, 116>>]
    /\ ctype.tag = "Err"
    /\ ctype.error.kind = "InvalidCharacter"

\* C6: is_valid is true iff all 4 bytes are ASCII letters and bit 5 of byte 2
\* is clear; a type from_str accepts whose third letter is lowercase ("Rust")
\* is constructed and reports is_valid() = false.
C6_IsValid ==
    /\ (answer # None /\ answer.pred = "is_valid") =>
          answer.value =
              ((\A i \in 1..4 : answer.self.bytes[i] \in Letters)
                  /\ Bit5Clear(answer.self.bytes[3]))
    /\ (input.kind = "str" /\ ctype # None /\ Len(input.s) = 4
            /\ (\A i \in 1..4 : input.s[i] \in Letters)
            /\ input.s[3] \in 97..122) =>
          /\ ctype.tag = "Ok"
          /\ (answer # None /\ answer.pred = "is_valid") => answer.value = FALSE

\* "Rust" is built and is not valid
C6_Witness ==
    /\ input = [kind |-> "str", s |-> <<82, 117, 115, 116>>]
    /\ ctype.tag = "Ok"
    /\ answer # None
    /\ answer.pred = "is_valid"
    /\ answer.value = FALSE

-----------------------------------------------------------------------------
(* u32 values as four big-endian bytes *)

\* u32::to_be_bytes of a number below 2^31
to_be_bytes(n) ==
    <<n \div 16777216, (n \div 65536) % 256, (n \div 256) % 256, n % 256>>

\* does the u32 exceed the slice length n (n < 2^31)?  from_be_bytes of a
\* value with the top bit set is above every length of the model
U32Exceeds(b, n) ==
    \/ b[1] >= 128
    \/ ((b[1] * 256 + b[2]) * 256 + b[3]) * 256 + b[4] > n

\* u32::from_be_bytes, for a value known not to exceed a slice length
from_be_bytes(b) == ((b[1] * 256 + b[2]) * 256 + b[3]) * 256 + b[4]

Xor32(u, v) == <<XorTable[u[1]][v[1]], XorTable[u[2]][v[2]],
                 XorTable[u[3]][v[3]], XorTable[u[4]][v[4]]>>

Shr1(u) == <<u[1] \div 2,
             (u[2] \div 2) + 128 * (u[1] % 2),
             (u[3] \div 2) + 128 * (u[2] % 2),
             (u[4] \div 2) + 128 * (u[3] % 2)>>

Shr8(u) == <<0, u[1], u[2], u[3]>>

-----------------------------------------------------------------------------
(* crc32fast::hash: CRC-32 (IEEE 802.3, reflected polynomial 0xEDB88320), *)
(* initial value and final xor 0xFFFFFFFF, one table lookup per byte       *)

CRC32_POLY == <<237, 184, 131, 32>>

RECURSIVE CrcShift(_, _)
CrcShift(c, k) ==
    IF k = 0 THEN c
    ELSE CrcShift(IF c[4] % 2 = 1 THEN Xor32(CRC32_POLY, Shr1(c)) ELSE Shr1(c),
                  k - 1)

CrcTable == [n \in 0..255 |-> CrcShift(<<0, 0, 0, n>>, 8)]

\* the register after the bytes, taken in order: one byte is one lookup; a
\* longer slice is its first half and then its second half.  (TLC evaluates
\* an argument when it is first used; comparing the register of the first
\* half makes TLC finish that half before it starts on the second.)
RECURSIVE CrcUpdate(_, _)
CrcUpdate(c, bytes) ==
    IF Len(bytes) = 0 THEN c
    ELSE IF Len(bytes) = 1
    THEN Xor32(CrcTable[XorTable[c[4]][bytes[1]]], Shr8(c))
    ELSE LET half == Len(bytes) \div 2
             mid == CrcUpdate(c, SubSeq(bytes, 1, half))
         IN  IF Len(mid) # 4 THEN mid
             ELSE CrcUpdate(mid, SubSeq(bytes, half + 1, Len(bytes)))

Crc32(bytes) ==
    Xor32(<<255, 255, 255, 255>>, CrcUpdate(<<255, 255, 255, 255>>, bytes))

-----------------------------------------------------------------------------
(* chunk.rs *)

Chunk_new(chunk_type, data) == [chunk_type |-> chunk_type, data |-> data]

\* data.len().try_into().unwrap(): the conversion to u32 fails only for a
\* payload of 2^32 bytes or more, beyond every payload of the model
Chunk_length(c) == Len(c.data)

\* crc32fast::hash over the type bytes chained with the data bytes
CrcOfDataOnly(c) == Crc32(c.data)
Chunk_crc(c) == Crc32(c.chunk_type.bytes \o c.data)

\* length, type, data, CRC; both numbers big-endian
AsBytesWithoutCrc(c) ==
    to_be_bytes(Chunk_length(c)) \o c.chunk_type.bytes \o c.data
AsBytesLengthLittleEndian(c) ==
    LET l == to_be_bytes(Chunk_length(c)) IN
    <<l[4], l[3], l[2], l[1]>> \o c.chunk_type.bytes \o c.data \o Chunk_crc(c)
Chunk_as_bytes(c) ==
    to_be_bytes(Chunk_length(c)) \o c.chunk_type.bytes \o c.data \o Chunk_crc(c)

\* the chunk of the tests: "RuSt", "This is where your secret message will be!"
testing_chunk ==
    Chunk_new([bytes |-> <<82, 117, 83, 116>>],
              <<84, 104, 105, 115, 32, 105, 115, 32, 119, 104, 101, 114, 101, 32,
                121, 111, 117, 114, 32, 115, 101, 99, 114, 101, 116, 32, 109, 101,
                115, 115, 97, 103, 101, 32, 119, 105, 108, 108, 32, 98, 101, 33>>)

\* its length and CRC; the tests expect 42 and 2882656334 = 0xABD1D84E
testing_chunk_length == Chunk_length(testing_chunk)

testing_chunk_crc == Chunk_crc(testing_chunk)

\* what is left of a Vec after drain(0..n)
Rest(bytes, n) == SubSeq(bytes, n + 1, Len(bytes))

\* impl TryFrom<&[u8]> for Chunk.  Vec::drain(0..n) panics when n exceeds the
\* vector's length; nothing in the function checks the length before draining.
TryFromAcceptsAnyCrc(value) ==
    LET n == from_be_bytes(SubSeq(value, 1, 4)) IN
    IF Len(value) < 4 \/ Len(value) - 4 < 4 THEN Panic
    ELSE IF U32Exceeds(SubSeq(value, 1, 4), Len(value) - 8) THEN Panic
    ELSE IF Len(value) - 8 - n < 4 THEN Panic
    ELSE Ok(Chunk_new([bytes |-> SubSeq(value, 5, 8)], SubSeq(value, 9, 8 + n)))
Chunk_try_from(value) ==
    IF Len(value) < 4 THEN Panic
    ELSE
    LET data_length_bytes == SubSeq(value, 1, 4)
        bytes1 == Rest(value, 4)
    IN
    IF Len(bytes1) < 4 THEN Panic
    ELSE
    LET chunk_type == ChunkType_try_from(SubSeq(bytes1, 1, 4)).value
        bytes2 == Rest(bytes1, 4)
    IN
    IF U32Exceeds(data_length_bytes, Len(bytes2)) THEN Panic
    ELSE
    LET data_length == from_be_bytes(data_length_bytes)
        data == SubSeq(bytes2, 1, data_length)
        bytes3 == Rest(bytes2, data_length)
    IN
    IF Len(bytes3) < 4 THEN Panic
    ELSE
    LET crc == SubSeq(bytes3, 1, 4)
        c == Chunk_new(chunk_type, data)
    IN
    IF Chunk_crc(c) = crc THEN Ok(c) ELSE Err([kind |-> "CRCMismatch"])

-----------------------------------------------------------------------------
(* Inputs of the Chunk operations *)

\* "RuSt", "IEND", and two types that are no text
ChunkTypeChoices ==
    { <<82, 117, 83, 116>>, <<73, 69, 78, 68>>, <<0, 0, 0, 0>>, <<255, 1, 32, 128>> }

DataAlphabet == {0, 97, 255}

\* a payload that is the CRC-32 of the bare type "RuSt": a chunk's bytes
\* that hold a shorter chunk's bytes within them
NestedCrcData == Crc32(<<82, 117, 83, 116>>)

ChunkInputs ==
    {[kind |-> "chunk", chunk_type |-> t, data |-> d] :
        t \in ChunkTypeChoices, d \in SeqsUpTo(DataAlphabet, MaxDataLen)}
    \cup {[kind |-> "chunk", chunk_type |-> <<82, 117, 83, 116>>, data |-> NestedCrcData]}

\* the u32 before c (wrapping), as in the tests' 2882656334 / 2882656333
RECURSIVE U32Pred(_, _)
U32Pred(b, i) ==
    IF i = 0 THEN b
    ELSE IF b[i] > 0 THEN [b EXCEPT ![i] = b[i] - 1]
    ELSE U32Pred([b EXCEPT ![i] = 255], i - 1)

\* CRC fields written in place of the chunk's own
CrcChoices(c) ==
    { <<0, 0, 0, 0>>,
      U32Pred(Chunk_crc(c), 4),
      Crc32(c.data),
      Crc32(to_be_bytes(Len(c.data)) \o c.chunk_type.bytes \o c.data) }

\* value with bit i flipped; bit i is bit (i % 8) of byte (i \div 8)
FlipBitOf(value, i) ==
    [value EXCEPT ![(i \div 8) + 1] = XorTable[@][Shl(1, i % 8)]]

-----------------------------------------------------------------------------
(* Chunk: the state machine.  A chunk is built, serialised, the bytes are *)
(* possibly damaged in one way, and the result is parsed.                  *)

InitChunk ==
    /\ input \in ChunkInputs
    /\ ctype = None /\ answer = None
    /\ chunk = None
    /\ buf = <<>>
    /\ edit = None
    /\ parsed = None
    /\ PngIdle /\ CliIdle

NewChunk ==
    /\ input.kind = "chunk"
    /\ chunk = None
    /\ chunk' = Chunk_new(ChunkType_try_from(input.chunk_type).value, input.data)
    /\ UNCHANGED <<typeVars, buf, edit, parsed, pngVars, cliVars>>

AsBytes ==
    /\ chunk # None
    /\ edit = None
    /\ buf' = Chunk_as_bytes(chunk)
    /\ edit' = [kind |-> "as_bytes"]
    /\ UNCHANGED <<typeVars, chunk, parsed, pngVars, cliVars>>

\* one bit of the serialised chunk is flipped
FlipBit ==
    /\ edit # None /\ edit.kind = "as_bytes"
    /\ parsed = None
    /\ \E i \in 0..(8 * Len(buf) - 1) :
          /\ buf' = FlipBitOf(buf, i)
          /\ edit' = [kind |-> "flip", bit |-> i]
    /\ UNCHANGED <<typeVars, chunk, parsed, pngVars, cliVars>>

\* only the first n bytes of the serialised chunk arrive
Truncate ==
    /\ edit # None /\ edit.kind = "as_bytes"
    /\ parsed = None
    /\ \E n \in 0..(Len(buf) - 1) :
          /\ buf' = SubSeq(buf, 1, n)
          /\ edit' = [kind |-> "truncate", n |-> n]
    /\ UNCHANGED <<typeVars, chunk, parsed, pngVars, cliVars>>

\* the CRC field is overwritten
SetCrc ==
    /\ edit # None /\ edit.kind = "as_bytes"
    /\ parsed = None
    /\ \E crc \in CrcChoices(chunk) :
          /\ buf' = SubSeq(buf, 1, Len(buf) - 4) \o crc
          /\ edit' = [kind |-> "crc"]
    /\ UNCHANGED <<typeVars, chunk, parsed, pngVars, cliVars>>

\* more bytes follow the chunk in the buffer
Extend ==
    /\ edit # None /\ edit.kind = "as_bytes"
    /\ parsed = None
    /\ \E b \in DataAlphabet :
          /\ buf' = Append(buf, b)
          /\ edit' = [kind |-> "extend"]
    /\ UNCHANGED <<typeVars, chunk, parsed, pngVars, cliVars>>

TryFrom ==
    /\ edit # None
    /\ parsed = None
    /\ parsed' = Chunk_try_from(buf)
    /\ UNCHANGED <<typeVars, chunk, buf, edit, pngVars, cliVars>>

NextChunk ==
    \/ NewChunk
    \/ AsBytes
    \/ FlipBit
    \/ Truncate
    \/ SetCrc
    \/ Extend
    \/ TryFrom

SpecChunk == InitChunk /\ [][NextChunk]_vars

-----------------------------------------------------------------------------
(* Chunk: properties *)

CRCMismatch == Err([kind |-> "CRCMismatch"])

\* the length the buffer declares exceeds what follows the 8 header bytes,
\* or the buffer does not hold the header, or the 4 CRC bytes do not fit
ShortBuffer(b) ==
    \/ Len(b) < 8
    \/ U32Exceeds(SubSeq(b, 1, 4), Len(b) - 8)
    \/ Len(b) - 8 - from_be_bytes(SubSeq(b, 1, 4)) < 4

\* C1: for a chunk built by Chunk::new from any 4-byte type and any payload,
\* the empty one included, Chunk::try_from(c.as_bytes()) is Ok with the type
\* bytes and data bytes of c, and its recomputed CRC is c.crc(), the CRC
\* that as_bytes wrote.
C1_ChunkRoundTrip ==
    (edit # None /\ edit.kind = "as_bytes" /\ parsed # None) =>
        /\ parsed.tag = "Ok"
        /\ parsed.value.chunk_type.bytes = input.chunk_type
        /\ parsed.value.data = input.data
        /\ Chunk_crc(parsed.value) = Chunk_crc(chunk)
        /\ Chunk_crc(parsed.value) = SubSeq(buf, Len(buf) - 3, Len(buf))
        /\ Len(buf) = 12 + Len(input.data)

\* the chunk with the empty payload and a type that is no text round-trips
C1_Witness ==
    /\ input = [kind |-> "chunk", chunk_type |-> <<255, 1, 32, 128>>, data |-> <<>>]
    /\ edit # None /\ edit.kind = "as_bytes"
    /\ parsed.tag = "Ok"

\* a one-byte payload round-trips
C1_WitnessData ==
    /\ input = [kind |-> "chunk", chunk_type |-> <<82, 117, 83, 116>>, data |-> <<97>>]
    /\ edit # None /\ edit.kind = "as_bytes"
    /\ parsed.tag = "Ok"

\* C2: for every buffer shorter than the chunk it declares, Chunk::try_from
\* returns the error TruncatedBuffer to its caller; it does not panic.
C2_ShortBufferIsError ==
    (parsed # None /\ ShortBuffer(buf)) =>
        /\ parsed.tag = "Err"
        /\ parsed.error.kind = "TruncatedBuffer"

\* C3 as claimed: a flip of any one bit of c.as_bytes(), in the length field,
\* the type field, the data or the CRC field, makes Chunk::try_from return
\* CRCMismatch.
C3_AnyBitFlipIsCRCMismatch ==
    (edit # None /\ edit.kind = "flip" /\ parsed # None) => parsed = CRCMismatch

\* C3 as amended: a flip of any one bit of the type field, the data or the
\* CRC field makes Chunk::try_from return CRCMismatch; a flip in the length
\* field that raises the declared length makes it panic.
C3_BitFlipOutsideLength ==
    (edit # None /\ edit.kind = "flip" /\ parsed # None) =>
        /\ edit.bit >= 32 => parsed = CRCMismatch
        /\ (edit.bit < 32 /\ U32Exceeds(SubSeq(buf, 1, 4), Len(input.data))) =>
              parsed = Panic

\* a bit of the data is flipped and the parse reports the CRC
C3_Witness ==
    /\ edit # None /\ edit.kind = "flip"
    /\ edit.bit >= 64 /\ edit.bit < 64 + 8 * Len(input.data)
    /\ parsed = CRCMismatch

\* a bit of the length field is flipped and the parse returns a chunk
C3_WitnessAccepted ==
    /\ edit # None /\ edit.kind = "flip"
    /\ edit.bit < 32
    /\ parsed.tag = "Ok"

\* C4: for every buffer holding a complete chunk, Chunk::try_from returns Ok
\* exactly when the 4 CRC bytes of the buffer are the CRC-32 of the 4 type
\* bytes followed by the data bytes, the length field left out; when they
\* differ it returns CRCMismatch and no chunk.  (The CRC-32 is the one of the
\* tests: 0xABD1D84E for the tests' chunk.)
C4_CrcCheckedOnDecode ==
    (parsed # None /\ ~ShortBuffer(buf)) =>
        LET n == from_be_bytes(SubSeq(buf, 1, 4))
            stored == SubSeq(buf, 9 + n, 12 + n)
            computed == Crc32(SubSeq(buf, 5, 8 + n))
        IN
        /\ (parsed.tag = "Ok") <=> (stored = computed)
        /\ testing_chunk_crc = <<171, 209, 216, 78>>
        /\ stored # computed => parsed = CRCMismatch
        /\ parsed.tag = "Ok" =>
              /\ parsed.value.chunk_type.bytes = SubSeq(buf, 5, 8)
              /\ parsed.value.data = SubSeq(buf, 9, 8 + n)

\* the CRC field was overwritten and the chunk is rejected
C4_Witness ==
    /\ edit # None /\ edit.kind = "crc"
    /\ ~ShortBuffer(buf)
    /\ parsed = CRCMismatch

-----------------------------------------------------------------------------
(* png.rs: the container.  A Png is its chunks in order; the 8 signature   *)
(* bytes are the same for every Png.                                       *)

\* longest container built through the container's own operations
MaxChunks == 3

STANDARD_HEADER == <<137, 80, 78, 71, 13, 10, 26, 10>>

\* Chunk::try_from on what is left of the buffer, then skip the 12 + length
\* bytes it used, until nothing is left; the first failure ends the parse
RECURSIVE ParseChunks(_, _)
ParseChunks(bytes, chunks) ==
    IF bytes = <<>> THEN Ok(chunks)
    ELSE LET r == Chunk_try_from(bytes) IN
         IF r.tag # "Ok" THEN r
         ELSE ParseChunks(Rest(bytes, 12 + Chunk_length(r.value)),
                          Append(chunks, r.value))

Png_try_from(bytes) ==
    IF Len(bytes) < 8 \/ SubSeq(bytes, 1, 8) # STANDARD_HEADER
    THEN Err([kind |-> "SignatureMismatch"])
    ELSE ParseChunks(Rest(bytes, 8), <<>>)

RECURSIVE ChunksAsBytes(_)
ChunksAsBytes(chunks) ==
    IF chunks = <<>> THEN <<>>
    ELSE Chunk_as_bytes(Head(chunks)) \o ChunksAsBytes(Tail(chunks))

Png_as_bytes(chunks) == STANDARD_HEADER \o ChunksAsBytes(chunks)

Png_append_chunk(chunks, c) == Append(chunks, c)

\* The outcomes of insert_chunk(index, c).  In range, c is put at index and
\* the chunks from there on move up by one.  encode uses the call as a
\* statement of type (), so no error value comes back from it: out of range
\* it can only panic or put the chunk at the nearest position, the end.
Png_insert_chunk(chunks, index, c) ==
    IF index <= Len(chunks)
    THEN {Ok(SubSeq(chunks, 1, index) \o <<c>> \o Rest(chunks, index))}
    ELSE {Panic, Ok(Append(chunks, c))}

-----------------------------------------------------------------------------
(* Png: the state machine.  A container is built chunk by chunk,           *)
(* serialised, and the bytes are parsed.                                   *)

PngTypeChoices == { <<82, 117, 83, 116>>, <<73, 69, 78, 68>>, <<255, 1, 32, 128>> }

PngChunkInputs ==
    {Chunk_new([bytes |-> t], d) : t \in PngTypeChoices, d \in {<<>>, <<97>>}}

InitPng ==
    /\ TypeIdle /\ ChunkIdle /\ CliIdle
    /\ png = <<>>
    /\ op = None
    /\ file = None
    /\ loaded = None

AppendChunk ==
    /\ op # Panic /\ file = None
    /\ Len(png) < MaxChunks
    /\ \E c \in PngChunkInputs :
          /\ png' = Png_append_chunk(png, c)
          /\ op' = [name |-> "append", before |-> png]
    /\ UNCHANGED <<typeVars, chunkVars, file, loaded, cliVars>>

InsertChunk ==
    /\ op # Panic /\ file = None
    /\ Len(png) < MaxChunks
    /\ \E c \in PngChunkInputs, index \in 0..(Len(png) + 1) :
       \E r \in Png_insert_chunk(png, index, c) :
          IF r.tag = "Ok"
          THEN /\ png' = r.value
               /\ op' = [name |-> "insert", before |-> png]
          ELSE /\ png' = png
               /\ op' = Panic
    /\ UNCHANGED <<typeVars, chunkVars, file, loaded, cliVars>>

Save ==
    /\ op # Panic /\ file = None
    /\ file' = Some(Png_as_bytes(png))
    /\ UNCHANGED <<typeVars, chunkVars, png, op, loaded, cliVars>>

Load ==
    /\ file # None /\ loaded = None
    /\ loaded' = Png_try_from(file.value)
    /\ UNCHANGED <<typeVars, chunkVars, png, op, file, cliVars>>

NextPng ==
    \/ AppendChunk
    \/ InsertChunk
    \/ Save
    \/ Load

SpecPng == InitPng /\ [][NextPng]_vars

-----------------------------------------------------------------------------
(* Png: properties *)

\* C8: for every container, any number of chunks of any types, duplicates
\* allowed, Png::try_from(p.as_bytes()) is Ok with as many chunks, in the
\* same order, each with the type bytes and data bytes of p's; and parsing
\* the bytes of the parsed container gives the parsed container again.
C8_ContainerRoundTrip ==
    loaded # None =>
        /\ loaded.tag = "Ok"
        /\ Len(loaded.value) = Len(png)
        /\ \A i \in 1..Len(png) :
              /\ loaded.value[i].chunk_type.bytes = png[i].chunk_type.bytes
              /\ loaded.value[i].data = png[i].data
        /\ Png_try_from(Png_as_bytes(loaded.value)) = loaded

\* three chunks, the first and the last the same one, round-trip
C8_Witness ==
    /\ loaded # None /\ loaded.tag = "Ok"
    /\ Len(png) = 3
    /\ png[1] = png[3] /\ png[1] # png[2]
    /\ Len(png[2].data) = 1
    /\ loaded.value = png

-----------------------------------------------------------------------------
(* cli/encode.rs *)

\* most runs of a command in one behaviour
MaxRuns == 2
\* largest --index given
MaxIndex == 3

IoError == Err([kind |-> "Io"])

\* File::open(path)? followed by read_to_end; a file on disk is Some(bytes)
ReadFile(files, path) ==
    IF files[path] = None THEN IoError ELSE Ok(files[path].value)

\* File::create(path)? followed by write
WriteFile(files, path, bytes) == [files EXCEPT ![path] = Some(bytes)]

\* encode(args) on the files of the disk: the set of its outcomes, each the
\* exit of the command and the files it leaves
EncodeIgnoresIndex(args, files) ==
    LET buffer == ReadFile(files, args.input_png_filepath)
        p == IF buffer.tag = "Ok" THEN Png_try_from(buffer.value) ELSE buffer
        message_bytes ==
            IF args.message # None THEN Ok(args.message.value)
            ELSE IF args.message_filepath # None
                 THEN ReadFile(files, args.message_filepath.value)
                 ELSE Err([kind |-> "MissingMessage"])
        chunk_type == ChunkType_from_str(args.chunk_type)
        path == IF args.output_png_filepath # None
                THEN args.output_png_filepath.value
                ELSE args.input_png_filepath
    IN
    IF p.tag # "Ok" THEN {[exit |-> p, fs |-> files]}
    ELSE IF message_bytes.tag # "Ok" THEN {[exit |-> message_bytes, fs |-> files]}
    ELSE IF chunk_type.tag # "Ok" THEN {[exit |-> chunk_type, fs |-> files]}
    ELSE {[exit |-> Ok(<<>>),
           fs |-> WriteFile(files, path,
                      Png_as_bytes(Png_append_chunk(p.value,
                          Chunk_new(chunk_type.value, message_bytes.value))))]}
encode(args, files) ==
    \* read the PNG file
    LET buffer == ReadFile(files, args.input_png_filepath) IN
    IF buffer.tag # "Ok" THEN {[exit |-> buffer, fs |-> files]}
    ELSE
    \* create a Png object
    LET p == Png_try_from(buffer.value) IN
    IF p.tag # "Ok" THEN {[exit |-> p, fs |-> files]}
    ELSE
    \* get message bytes
    LET message_bytes ==
            IF args.message # None THEN Ok(args.message.value)
            ELSE IF args.message_filepath # None
                 THEN ReadFile(files, args.message_filepath.value)
                 ELSE Err([kind |-> "MissingMessage"])
    IN
    IF message_bytes.tag # "Ok" THEN {[exit |-> message_bytes, fs |-> files]}
    ELSE
    \* create the chunk from the given chunk type and message
    LET chunk_type == ChunkType_from_str(args.chunk_type) IN
    IF chunk_type.tag # "Ok" THEN {[exit |-> chunk_type, fs |-> files]}
    ELSE
    LET c == Chunk_new(chunk_type.value, message_bytes.value)
        \* encode the message into PNG
        inserted ==
            IF args.chunk_index # None
            THEN Png_insert_chunk(p.value, args.chunk_index.value, c)
            ELSE {Ok(Png_append_chunk(p.value, c))}
        \* decide the output file path
        output_png_filepath ==
            IF args.output_png_filepath # None
            THEN args.output_png_filepath.value
            ELSE args.input_png_filepath
    IN
    \* write file
    { IF r.tag = "Ok"
      THEN [exit |-> Ok(<<>>),
            fs |-> WriteFile(files, output_png_filepath, Png_as_bytes(r.value))]
      ELSE [exit |-> r, fs |-> files]
      : r \in inserted }

-----------------------------------------------------------------------------
(* cli/decode.rs *)

\* a continuation byte of UTF-8
is_utf8_cont(b) == b \in 128..191

\* whether String::from_utf8 / str::from_utf8 accepts the bytes
RECURSIVE is_utf8(_)
is_utf8(s) ==
    IF s = <<>> THEN TRUE
    ELSE LET b == s[1]
             n == Len(s)
             two == n >= 2 /\ is_utf8(SubSeq(s, 3, n))
             three == n >= 3 /\ is_utf8_cont(s[3]) /\ is_utf8(SubSeq(s, 4, n))
             four == /\ n >= 4 /\ is_utf8_cont(s[3]) /\ is_utf8_cont(s[4])
                     /\ is_utf8(SubSeq(s, 5, n))
         IN
         IF b < 128 THEN is_utf8(Tail(s))
         ELSE IF b \in 194..223 THEN two /\ is_utf8_cont(s[2])
         ELSE IF b = 224 THEN three /\ s[2] \in 160..191
         ELSE IF b \in (225..236) \cup {238, 239} THEN three /\ is_utf8_cont(s[2])
         ELSE IF b = 237 THEN three /\ s[2] \in 128..159
         ELSE IF b = 240 THEN four /\ s[2] \in 144..191
         ELSE IF b \in 241..243 THEN four /\ is_utf8_cont(s[2])
         ELSE IF b = 244 THEN four /\ s[2] \in 128..143
         ELSE FALSE

\* Chunk::data_as_string: the data as text, when it is UTF-8
DataAsStringLossy(c) == Ok(c.data)
Chunk_data_as_string(c) ==
    IF is_utf8(c.data) THEN Ok(c.data)
    ELSE Err([kind |-> "StringConvertionFailure"])

\* Display of ChunkType: the four bytes as text, when they are UTF-8
ChunkType_to_string(ct) ==
    IF is_utf8(ct.bytes) THEN Ok(ct.bytes) ELSE Err([kind |-> "fmt"])

\* Png::chunk_by_type: the first chunk, in stored order, whose type's text is
\* the text asked for, or None
RECURSIVE Png_chunk_by_type(_, _)
Png_chunk_by_type(chunks, chunk_type) ==
    IF chunks = <<>> THEN None
    ELSE IF ChunkType_to_string(chunks[1].chunk_type) = Ok(chunk_type)
         THEN Some(chunks[1])
         ELSE Png_chunk_by_type(Tail(chunks), chunk_type)

\* println!("{}", s)
println(s) == Some(s \o <<10>>)

\* println!("{}", "No message is found".bright_yellow())
NoMessageIsFound == [tag |-> "No message is found"]

\* decode(args) on the files of the disk: the exit of the command, the files
\* it leaves and what it printed
DecodeNotFoundIsError(args, files) ==
    LET buffer == ReadFile(files, args.png_filepath)
        p == IF buffer.tag = "Ok" THEN Png_try_from(buffer.value) ELSE buffer
        c == IF p.tag = "Ok" THEN Png_chunk_by_type(p.value, args.chunk_type) ELSE None
    IN
    IF p.tag # "Ok" THEN [exit |-> p, fs |-> files, stdout |-> None]
    ELSE IF c = None
    THEN [exit |-> Err([kind |-> "NotFound"]), fs |-> files, stdout |-> None]
    ELSE IF args.output_filepath # None
    THEN [exit |-> Ok(<<>>),
          fs |-> WriteFile(files, args.output_filepath.value, c.value.data),
          stdout |-> None]
    ELSE IF Chunk_data_as_string(c.value).tag # "Ok"
    THEN [exit |-> Chunk_data_as_string(c.value), fs |-> files, stdout |-> None]
    ELSE [exit |-> Ok(<<>>), fs |-> files,
          stdout |-> println(Chunk_data_as_string(c.value).value)]
DecodePrintsLossy(args, files) ==
    LET buffer == ReadFile(files, args.png_filepath)
        p == IF buffer.tag = "Ok" THEN Png_try_from(buffer.value) ELSE buffer
        c == IF p.tag = "Ok" THEN Png_chunk_by_type(p.value, args.chunk_type) ELSE None
    IN
    IF p.tag # "Ok" THEN [exit |-> p, fs |-> files, stdout |-> None]
    ELSE IF c = None
    THEN [exit |-> Ok(<<>>), fs |-> files, stdout |-> NoMessageIsFound]
    ELSE IF args.output_filepath # None
    THEN [exit |-> Ok(<<>>),
          fs |-> WriteFile(files, args.output_filepath.value, c.value.data),
          stdout |-> None]
    ELSE [exit |-> Ok(<<>>), fs |-> files,
          stdout |-> println(DataAsStringLossy(c.value).value)]
decode(args, files) ==
    \* read the PNG file
    LET buffer == ReadFile(files, args.png_filepath) IN
    IF buffer.tag # "Ok" THEN [exit |-> buffer, fs |-> files, stdout |-> None]
    ELSE
    \* create a Png object
    LET p == Png_try_from(buffer.value) IN
    IF p.tag # "Ok" THEN [exit |-> p, fs |-> files, stdout |-> None]
    ELSE
    \* find the chunk containing the message
    LET c == Png_chunk_by_type(p.value, args.chunk_type) IN
    \* extract the embedded message in the chunk
    IF c # None
    THEN IF args.output_filepath # None
         THEN [exit |-> Ok(<<>>),
               fs |-> WriteFile(files, args.output_filepath.value, c.value.data),
               stdout |-> None]
         ELSE LET s == Chunk_data_as_string(c.value) IN
              IF s.tag # "Ok" THEN [exit |-> s, fs |-> files, stdout |-> None]
              ELSE [exit |-> Ok(<<>>), fs |-> files, stdout |-> println(s.value)]
    ELSE [exit |-> Ok(<<>>), fs |-> files, stdout |-> NoMessageIsFound]

-----------------------------------------------------------------------------
(* The commands: the state machine.  The disk holds a PNG file, possibly   *)
(* an output file, and message files; encode and decode run on it again    *)
(* and again.                                                              *)

Paths == {"in.png", "out.png", "msg.txt", "raw.bin", "none.txt", "found.txt"}

\* the PNG files the first command finds: no chunk; two chunks "IHDR" and
\* "IEND" (one holding a byte); a file that is no PNG
SeedFiles ==
    { Png_as_bytes(<<>>),
      Png_as_bytes(<<Chunk_new([bytes |-> <<73, 72, 68, 82>>], <<1>>),
                     Chunk_new([bytes |-> <<73, 69, 78, 68>>], <<>>)>>),
      <<80, 78, 71>> }

\* "RuSt", "teSt", "Ru1t"
TypeArgs == { <<82, 117, 83, 116>>, <<116, 101, 83, 116>>, <<82, 117, 49, 116>> }

EncodeArgs ==
    [ input_png_filepath : {"in.png"},
      chunk_type : TypeArgs,
      message : {None, Some(<<97>>)},
      message_filepath : {None, Some("msg.txt"), Some("none.txt")},
      chunk_index : {None} \cup {Some(i) : i \in 0..MaxIndex},
      output_png_filepath : {None} ]
    \cup
    \* the PNG is saved in another file
    [ input_png_filepath : {"in.png"},
      chunk_type : {<<82, 117, 83, 116>>},
      message : {Some(<<97>>)},
      message_filepath : {None},
      chunk_index : {None, Some(1), Some(MaxIndex)},
      output_png_filepath : {Some("out.png")} ]
    \cup
    \* a message file that is not text
    [ input_png_filepath : {"in.png"},
      chunk_type : {<<82, 117, 83, 116>>},
      message : {None},
      message_filepath : {Some("raw.bin")},
      chunk_index : {None, Some(0)},
      output_png_filepath : {None} ]

\* "RuSt", "teSt", "nope", "te"
DecodeTypeArgs ==
    { <<82, 117, 83, 116>>, <<116, 101, 83, 116>>, <<110, 111, 112, 101>>,
      <<116, 101>> }

DecodeArgs ==
    [ png_filepath : {"in.png", "out.png"},
      chunk_type : DecodeTypeArgs,
      output_filepath : {None, Some("found.txt")} ]

InitCli ==
    /\ TypeIdle /\ ChunkIdle /\ PngIdle
    /\ \E seed \in SeedFiles :
          fs = [path \in Paths |->
                   IF path = "in.png" THEN Some(seed)
                   ELSE IF path = "msg.txt" THEN Some(<<98>>)
                   ELSE IF path = "raw.bin" THEN Some(<<255>>)
                   ELSE None]
    /\ last = None
    /\ runs = 0

\* one run of the encode command
Encode ==
    /\ last = None
    /\ runs < MaxRuns
    /\ \E args \in EncodeArgs :
       \E out \in encode(args, fs) :
          /\ fs' = out.fs
          /\ last' = [cmd |-> "encode", args |-> args, exit |-> out.exit,
                      before |-> fs]
    /\ runs' = runs + 1
    /\ UNCHANGED <<typeVars, chunkVars, pngVars>>

\* what a run of decode leaves; a decode that is to write a file counts as
\* a run
Decoded(args) ==
    /\ args.output_filepath # None => runs < MaxRuns
    /\ runs' = IF args.output_filepath # None THEN runs + 1 ELSE runs
    /\ LET out == decode(args, fs) IN
          /\ fs' = out.fs
          /\ last' = [cmd |-> "decode", args |-> args, exit |-> out.exit,
                      stdout |-> out.stdout, before |-> fs, prev |-> last]
    /\ UNCHANGED <<typeVars, chunkVars, pngVars>>

\* one run of the decode command
Decode ==
    /\ last = None
    /\ \E args \in DecodeArgs : Decoded(args)

\* decode run right after an encode, on the file encode wrote and with the
\* chunk type encode was given
DecodeBack ==
    /\ last # None
    /\ IF last = None THEN FALSE ELSE last.cmd = "encode" /\ last.exit.tag = "Ok"
    /\ \E output_filepath \in {None, Some("found.txt")} :
          Decoded([png_filepath |->
                       IF last.args.output_png_filepath # None
                       THEN last.args.output_png_filepath.value
                       ELSE last.args.input_png_filepath,
                   chunk_type |-> last.args.chunk_type,
                   output_filepath |-> output_filepath])

\* the command's process is gone and the shell takes the next command
Prompt ==
    /\ last # None
    /\ last' = None
    /\ UNCHANGED <<typeVars, chunkVars, pngVars, fs, runs>>

NextCli ==
    \/ Encode
    \/ Decode
    \/ DecodeBack
    \/ Prompt

SpecCli == InitCli /\ [][NextCli]_vars

-----------------------------------------------------------------------------
(* The commands: properties *)

\* encode ran and found its input file
EncodeRead ==
    /\ last # None /\ last.cmd = "encode"
    /\ last.before[last.args.input_png_filepath] # None

\* the container encode parsed from its input file, and the one it wrote
EncodeOld == Png_try_from(last.before[last.args.input_png_filepath].value)

EncodeNew ==
    Png_try_from(fs[IF last.args.output_png_filepath # None
                    THEN last.args.output_png_filepath.value
                    ELSE last.args.input_png_filepath].value)

\* the run got as far as the chunk: the PNG parsed (as old), a message was
\* there and the type text was four letters
EncodeBuiltChunk(old) ==
    /\ old.tag = "Ok"
    /\ \/ last.args.message # None
       \/ /\ last.args.message_filepath # None
          /\ last.before[last.args.message_filepath.value] # None
    /\ Len(last.args.chunk_type) = 4
    /\ \A i \in 1..4 : last.args.chunk_type[i] \in Letters

\* the messages the arguments name
EncodeMessages ==
    (IF last.args.message # None THEN {last.args.message.value} ELSE {})
    \cup (IF last.args.message_filepath # None
             /\ last.before[last.args.message_filepath.value] # None
          THEN {last.before[last.args.message_filepath.value].value}
          ELSE {})

\* C9: insert_chunk(index, chunk) with index above the number of chunks
\* fails with IndexOutOfRange returned to its caller, without a panic, so
\* that encode run with an out-of-range --index ends in that error.
C9_OutOfRangeInsertIsError ==
    EncodeRead =>
        LET old == EncodeOld IN
        (EncodeBuiltChunk(old) /\ last.args.chunk_index # None
            /\ last.args.chunk_index.value > Len(old.value)) =>
            last.exit = Err([kind |-> "IndexOutOfRange"])

\* C10: append puts the chunk last, insert at index i, 0 <= i <= length, puts
\* it at position i; every other chunk keeps its place relative to the
\* others and the length grows by exactly one; this is the order found when
\* the bytes encode wrote are parsed again.
C10_InsertAppendOrder ==
    EncodeRead =>
        LET old == EncodeOld IN
        (EncodeBuiltChunk(old)
            /\ (last.args.chunk_index # None =>
                   last.args.chunk_index.value <= Len(old.value))) =>
            LET new == EncodeNew
                pos == IF last.args.chunk_index # None
                       THEN last.args.chunk_index.value
                       ELSE Len(old.value)
            IN
            /\ last.exit.tag = "Ok"
            /\ new.tag = "Ok"
            /\ Len(new.value) = Len(old.value) + 1
            /\ new.value[pos + 1].chunk_type.bytes = last.args.chunk_type
            /\ new.value[pos + 1].data \in EncodeMessages
            /\ \A j \in 1..pos : new.value[j] = old.value[j]
            /\ \A j \in (pos + 1)..Len(old.value) : new.value[j + 1] = old.value[j]

\* append X = ("RuSt", "a"), then insert Y = ("teSt", "b") at 0: [Y, X]
C10_Witness ==
    /\ EncodeRead
    /\ last.exit.tag = "Ok"
    /\ last.args.chunk_index = Some(0)
    /\ last.args.output_png_filepath = None
    /\ runs = 2
    /\ EncodeOld = Ok(<<Chunk_new([bytes |-> <<82, 117, 83, 116>>], <<97>>)>>)
    /\ EncodeNew = Ok(<<Chunk_new([bytes |-> <<116, 101, 83, 116>>], <<98>>),
                        Chunk_new([bytes |-> <<82, 117, 83, 116>>], <<97>>)>>)

\* a chunk is inserted between the two chunks of a PNG
C10_WitnessMiddle ==
    /\ EncodeRead
    /\ last.exit.tag = "Ok"
    /\ last.args.chunk_index = Some(1)
    /\ EncodeOld.tag = "Ok" /\ Len(EncodeOld.value) = 2
    /\ EncodeNew.tag = "Ok" /\ Len(EncodeNew.value) = 3

\* encode is given --index 1 for a PNG with no chunk
C9_Reached ==
    /\ EncodeRead
    /\ last.args.chunk_index = Some(1)
    /\ EncodeOld = Ok(<<>>)
    /\ EncodeBuiltChunk(EncodeOld)

\* the place of the chunk encode added, counted from 1, in what it wrote
EncodePlace(old) ==
    IF last.args.chunk_index # None /\ last.args.chunk_index.value <= Len(old.value)
    THEN last.args.chunk_index.value + 1
    ELSE Len(old.value) + 1

\* C12: whenever --msg-file is set, the message encode embeds is the content
\* of that file and --msg is ignored, also when both are given; when neither
\* is given encode fails with MissingMessage.
C12_MsgFileTakesPrecedence ==
    EncodeRead =>
        LET old == EncodeOld IN
        old.tag = "Ok" =>
            /\ (last.args.message_filepath # None /\ last.exit.tag = "Ok") =>
                  LET new == EncodeNew IN
                  /\ last.before[last.args.message_filepath.value] # None
                  /\ new.value[EncodePlace(old)].data =
                        last.before[last.args.message_filepath.value].value
            /\ (last.args.message_filepath = None /\ last.args.message = None) =>
                  last.exit = Err([kind |-> "MissingMessage"])

\* what encode.rs:56-73 does: --msg is looked at first, the file only without
\* it, and MissingMessage is the exit when the PNG parsed and neither is given
C12_MsgTakesPrecedence ==
    EncodeRead =>
        LET old == EncodeOld IN
        old.tag = "Ok" =>
            /\ (last.args.message # None /\ last.exit.tag = "Ok") =>
                  EncodeNew.value[EncodePlace(old)].data = last.args.message.value
            /\ (last.args.message = None /\ last.args.message_filepath # None
                   /\ last.exit.tag = "Ok") =>
                  EncodeNew.value[EncodePlace(old)].data =
                      last.before[last.args.message_filepath.value].value
            /\ (last.args.message_filepath = None /\ last.args.message = None) =>
                  last.exit = Err([kind |-> "MissingMessage"])

\* both --msg "a" and --msg-file msg.txt (holding "b") are given and "a" is
\* what the written PNG holds
C12_BothGiven ==
    /\ EncodeRead
    /\ last.exit.tag = "Ok"
    /\ last.args.message = Some(<<97>>)
    /\ last.args.message_filepath = Some("msg.txt")
    /\ last.args.chunk_index = None
    /\ EncodeOld = Ok(<<>>)
    /\ EncodeNew = Ok(<<Chunk_new([bytes |-> <<82, 117, 83, 116>>], <<97>>)>>)

-----------------------------------------------------------------------------
(* decode: properties *)

\* decode ran and found its PNG file
DecodeRead ==
    /\ last # None /\ last.cmd = "decode"
    /\ last.before[last.args.png_filepath] # None

\* the container decode parsed
DecodePng == Png_try_from(last.before[last.args.png_filepath].value)

\* the places, counted from 1, of the chunks of type text t
PlacesOfType(chunks, t) == {i \in 1..Len(chunks) : chunks[i].chunk_type.bytes = t}

Lowest(S) == CHOOSE i \in S : \A j \in S : i <= j

\* decode came out with the bytes d: printed as a line, when they are ASCII
\* text, or written to the --out file
DecodeYields(d) ==
    IF last.args.output_filepath # None
    THEN /\ last.exit.tag = "Ok"
         /\ last.stdout = None
         /\ fs = [last.before EXCEPT ![last.args.output_filepath.value] = Some(d)]
    ELSE (\A i \in 1..Len(d) : d[i] < 128) =>
            /\ last.exit.tag = "Ok"
            /\ last.stdout = Some(d \o <<10>>)
            /\ fs = last.before

\* C11: chunk_by_type(t) returns the chunk with the lowest index whose type
\* text is t when there is one, and none, which is no error, when no chunk
\* has that type; the chunks stay as they were.  Seen through decode: it
\* comes out with the data of that chunk, or reports that no message is
\* found and ends Ok, and the PNG file holds the same chunks afterwards.
C11_ChunkByType ==
    DecodeRead =>
        LET p == DecodePng IN
        p.tag = "Ok" =>
            LET found == PlacesOfType(p.value, last.args.chunk_type) IN
            /\ found # {} => DecodeYields(p.value[Lowest(found)].data)
            /\ found = {} =>
                  /\ last.exit = Ok(<<>>)
                  /\ last.stdout = NoMessageIsFound
                  /\ fs = last.before
            /\ Png_try_from(fs[last.args.png_filepath].value) = p

\* the PNG holds "IHDR", "teSt", "IEND" and decode of "teSt" prints the data
\* of the second chunk
C11_Witness ==
    /\ DecodeRead
    /\ DecodePng.tag = "Ok" /\ Len(DecodePng.value) = 3
    /\ DecodePng.value[1].chunk_type.bytes = <<73, 72, 68, 82>>
    /\ DecodePng.value[2] = Chunk_new([bytes |-> <<116, 101, 83, 116>>], <<98>>)
    /\ DecodePng.value[3].chunk_type.bytes = <<73, 69, 78, 68>>
    /\ last.args.chunk_type = <<116, 101, 83, 116>>
    /\ last.args.output_filepath = None
    /\ last.exit = Ok(<<>>)
    /\ last.stdout = Some(<<98, 10>>)

\* the same PNG and decode of "nope": no message is found, and no error
C11_WitnessNone ==
    /\ DecodeRead
    /\ DecodePng.tag = "Ok" /\ Len(DecodePng.value) = 3
    /\ DecodePng.value[2].chunk_type.bytes = <<116, 101, 83, 116>>
    /\ last.args.chunk_type = <<110, 111, 112, 101>>
    /\ last.exit = Ok(<<>>)
    /\ last.stdout = NoMessageIsFound

\* decode ran right after an encode that added a chunk, on the file encode
\* wrote and with encode's chunk type
DecodeBackRan == DecodeRead /\ last.prev # None

\* the place, counted from 1, where that encode put its chunk
AddedPlace ==
    LET old == Png_try_from(last.prev.before[last.prev.args.input_png_filepath].value)
        index == last.prev.args.chunk_index
    IN IF index # None /\ index.value <= Len(old.value)
       THEN index.value + 1
       ELSE Len(old.value) + 1

\* a chunk of the type asked for is stored before the place
ShadowedIn(chunks, place) ==
    \E j \in 1..(place - 1) : chunks[j].chunk_type.bytes = last.args.chunk_type

Shadowed == ShadowedIn(DecodePng.value, AddedPlace)

\* decode gave exactly the bytes d: printed as a line, or written to --out
DecodeGave(d) ==
    /\ last.exit.tag = "Ok"
    /\ IF last.args.output_filepath # None
       THEN fs[last.args.output_filepath.value] = Some(d)
       ELSE last.stdout = Some(d \o <<10>>)

\* C13 as stated: after encode adds a chunk of type T with message M
\* (appended, or inserted at an index), decode with type T yields M if and
\* only if no chunk of type T is stored before the new chunk's place; with an
\* earlier chunk of type T decode yields that chunk's data, not M.
C13_RecoveredIffNotShadowed ==
    DecodeBackRan =>
        LET new == DecodePng.value
            place == AddedPlace
        IN DecodeGave(new[place].data) <=> ~ShadowedIn(new, place)

\* C13 amended: decode with type T comes out with the data of the first chunk
\* of type T of the PNG encode wrote.  Without an earlier chunk of type T
\* that chunk is the new one and the data is M; with one it is the earliest
\* such chunk, whatever its data (M again when it holds the same bytes).
\* The data is written to --out as it is; it is printed when it is text, and
\* decode fails with StringConvertionFailure, printing nothing, when it holds
\* a byte no UTF-8 text has.
C13_FirstOfTypeIsDecoded ==
    DecodeBackRan =>
        LET new == DecodePng.value
            place == AddedPlace
            found == PlacesOfType(new, last.args.chunk_type)
            first == Lowest(found)
            d == new[first].data
        IN
        /\ place \in found
        /\ ~ShadowedIn(new, place) => first = place
        /\ ShadowedIn(new, place) => first < place
        /\ IF last.args.output_filepath # None
              \/ \A i \in 1..Len(d) : d[i] < 128
           THEN DecodeGave(d)
           ELSE (\E i \in 1..Len(d) : d[i] \in {192, 193} \cup (245..255)) =>
                   /\ last.exit = Err([kind |-> "StringConvertionFailure"])
                   /\ last.stdout = None
                   /\ fs = last.before

\* "RuSt" is encoded twice by append, with "a" and then with "b" from the
\* message file: decode of "RuSt" prints "a"
C13_Witness ==
    /\ DecodeBackRan
    /\ DecodePng.value = <<Chunk_new([bytes |-> <<82, 117, 83, 116>>], <<97>>),
                           Chunk_new([bytes |-> <<82, 117, 83, 116>>], <<98>>)>>
    /\ AddedPlace = 2
    /\ last.prev.args.message = None
    /\ last.args.output_filepath = None
    /\ last.exit = Ok(<<>>)
    /\ last.stdout = Some(<<97, 10>>)

\* the new chunk is inserted before an older "RuSt" chunk and its message is
\* what decode prints
C13_WitnessRecovered ==
    /\ DecodeBackRan
    /\ Len(DecodePng.value) = 2
    /\ DecodePng.value[2].chunk_type.bytes = <<82, 117, 83, 116>>
    /\ DecodePng.value[1] # DecodePng.value[2]
    /\ AddedPlace = 1 /\ ~Shadowed
    /\ last.args.output_filepath = None
    /\ DecodeGave(DecodePng.value[1].data)

\* "RuSt" is encoded twice with the same message: shadowed, and decode still
\* gives the message
C13_WitnessSameMessage ==
    /\ DecodeBackRan
    /\ Shadowed
    /\ DecodeGave(DecodePng.value[AddedPlace].data)

\* the message decode was asked to write to the --out file is there
C13_WitnessOut ==
    /\ DecodeBackRan
    /\ ~Shadowed
    /\ last.args.output_filepath = Some("found.txt")
    /\ last.before["found.txt"] = None
    /\ fs["found.txt"] = Some(<<98>>)

\* the message file holds the byte 255 and nothing shadows the new chunk:
\* decode to the terminal fails
C13_WitnessNotText ==
    /\ DecodeBackRan
    /\ ~Shadowed
    /\ DecodePng.value[AddedPlace].data = <<255>>
    /\ last.args.output_filepath = None
    /\ last.exit = Err([kind |-> "StringConvertionFailure"])

====
